---- MODULE Spec2Model ----
(***************************************************************************)
(* Incremental Bayes-tree maintenance (ISAM::update, ISAM-inl.h) and the   *)
(* hybrid assignment resolver (HybridBayesTree::optimize).                 *)
(*                                                                         *)
(* Only the structure of factors and conditionals is modelled: a factor is *)
(* the set of variable keys it touches, a conditional is a frontal set and *)
(* a separator set.  Numeric content is abstracted; the one numeric        *)
(* outcome that changes control flow, a rank-deficient elimination, is an  *)
(* input of the call.                                                      *)
(*                                                                         *)
(* ISAM-inl.h calls BayesTree::removeTop, BayesTree::insert,               *)
(* BayesTree::findParentClique, FactorGraph and eliminate, whose bodies    *)
(* live in BayesTree-inl.h and the inference headers; those operators      *)
(* follow the design document (spec.md 4.1 and 4.2) and say so where they  *)
(* are defined.                                                            *)
(***************************************************************************)
EXTENDS Integers, Sequences, FiniteSets, TLC

\* ------------------------------------------------------------------ bounds
\* Variable keys are 1..MaxKey.
MaxKey == 4
\* An update carries at most MaxBatch new factors.
MaxBatch == 1
\* At most MaxUpdates calls of update are made on one tree.
MaxUpdates == 3
\* At most MaxNetUpdates calls of update are made on a tree built from an
\* arbitrary Bayes net.
MaxNetUpdates == 1
\* A hybrid Bayes tree holds the keys 1..MaxHybridKey.
MaxHybridKey == 3
\* Values of the constrained variable are 0..MaxCoord (one coordinate).
MaxCoord == 2
\* Error gains handed to the inexact constructor are 0..MaxGain.
MaxGain == 2
\* A key of a table factor has 2..MaxCard states.
MaxCard == 3
\* A table has at most MaxTableSize entries.
MaxTableSize == 6
\* A table factor is over 1..MaxTableKeys keys.
MaxTableKeys == 2
\* The potentials of a table are 1..MaxPotential.
MaxPotential == 6

Keys == 1..MaxKey

\* The null clique pointer (an empty shared_ptr / parent_ of a root).
NoClique == 0

VARIABLES
    cliques,     \* the live clique objects: id -> [frontals, separator, parent, children]
    nodes,       \* BayesTree::nodes_, the index: key -> id of the clique where it is frontal
    orphans,     \* the Cliques& out-parameter of the last update_internal call
    newFactors,  \* the argument of the last update call
    ordering,    \* the ordering the last update call eliminated under
    result,      \* how the last call ended: "ok", or the error it threw
    nUpdates,    \* number of update calls made so far
    pre,         \* history: [cliques, nodes] as they were when the last call began
    allFactors,  \* history: every factor handed to the tree so far (a set of key sets)
    hCliques,    \* HybridBayesTree: clique id -> [frontals, kind, modes] of its conditional
    hNodes,      \* HybridBayesTree::nodes(): key -> id of the clique where it is frontal
    assignment,  \* the DiscreteValues argument of the last optimize call
    visited,     \* the order in which that call iterated over nodes()
    added_keys,  \* KeyVector added_keys when the loop of that call ended
    gbn,         \* GaussianBayesNet gbn when the loop of that call ended
    equality,    \* NonlinearEquality: [feasible_, allow_error_, error_gain_, compare_]
    call,        \* the last call made on it: [op, xj, H]
    outcome,     \* how that call ended: [thrown, value, A, factor]
    f1,          \* DecisionTreeFactor: [cards, table], the table in row-major order
    actual       \* what the last sum or max call on it returned: [op, cards, table]

isamVars == <<cliques, nodes, orphans, newFactors, ordering, result, nUpdates, pre, allFactors>>

hybridVars == <<hCliques, hNodes, assignment, visited, added_keys, gbn>>

equalityVars == <<equality, call, outcome>>

tableVars == <<f1, actual>>

vars == <<isamVars, hybridVars, equalityVars, tableVars>>

\* ----------------------------------------------------------- small helpers
Range(s) == {s[i] : i \in DOMAIN s}

Reverse(s) == [i \in 1..Len(s) |-> s[Len(s) + 1 - i]]

Min(S) == CHOOSE x \in S : \A y \in S : x <= y

Max(S) == CHOOSE x \in S : \A y \in S : y <= x

\* A set of integers as the ascending sequence of its elements.
RECURSIVE SetToSeq(_)
SetToSeq(S) ==
    IF S = {} THEN <<>> ELSE <<Min(S)>> \o SetToSeq(S \ {Min(S)})

\* All orderings (permutations) of a set of keys.
RECURSIVE Perms(_)
Perms(S) ==
    IF S = {} THEN {<<>>}
    ELSE UNION {{<<x>> \o p : p \in Perms(S \ {x})} : x \in S}

\* ------------------------------------------------------------ factor graphs
\* The factor shapes of the model: unary (prior) and binary (constraint) factors.
Factors == {{a, b} : a \in Keys, b \in Keys}

\* FactorGraph::keys(): the union of the variable keys the factors touch.
keys(graph) == UNION Range(graph)

\* Non-decreasing sequences of factors of a given length; the order of the
\* factors in a graph has no effect on any operator below, so one
\* representative per multiset is enumerated.
FactorRank(f) == Min(f) * (MaxKey + 1) + Max(f)

RECURSIVE SortedGraphs(_)
SortedGraphs(n) ==
    IF n = 0 THEN {<<>>}
    ELSE UNION {{<<f>> \o g : g \in {h \in SortedGraphs(n - 1) :
                                      h = <<>> \/ FactorRank(f) <= FactorRank(h[1])}}
                : f \in Factors}

Batches == UNION {SortedGraphs(n) : n \in 0..MaxBatch}

\* --------------------------------------------------------- tree navigation
\* The strict ancestors of clique c, following parent_ links (the walk is cut
\* after as many steps as there are cliques).
RECURSIVE AncestorsUpTo(_, _, _)
AncestorsUpTo(cl, c, fuel) ==
    IF fuel = 0 \/ c \notin DOMAIN cl THEN {}
    ELSE LET p == cl[c].parent
         IN  IF p = NoClique \/ p \notin DOMAIN cl THEN {}
             ELSE {p} \cup AncestorsUpTo(cl, p, fuel - 1)

Ancestors(cl, c) == AncestorsUpTo(cl, c, Cardinality(DOMAIN cl))

PathToRoot(cl, c) == {c} \cup Ancestors(cl, c)

\* A fresh clique address: the lowest one not in use.
NewId(cl) == Min({i \in 1..(Cardinality(DOMAIN cl) + 1) : i \notin DOMAIN cl})

\* ------------------------------------------------------------- elimination
\* eliminate(factors, ordering), spec.md 4.1: for each variable in ordering
\* order, combine the factors touching it, emit the conditional of that
\* variable given the remaining keys, and replace the consumed factors by the
\* residual factor over those remaining keys.
RECURSIVE eliminate(_, _)
eliminate(factors, ord) ==
    IF ord = <<>> THEN <<>>
    ELSE LET v        == Head(ord)
             touching == {i \in DOMAIN factors : v \in factors[i]}
             sep      == (UNION {factors[i] : i \in touching}) \ {v}
             rest     == SelectSeq(factors, LAMBDA f : v \notin f)
             residual == IF sep = {} THEN <<>> ELSE <<sep>>
         IN  <<[frontals |-> {v}, separator |-> sep]>>
                 \o eliminate(rest \o residual, Tail(ord))

\* FactorGraph(bayesNet): each conditional converted back into a plain
\* factor over its frontal and separator keys (spec.md 4.2, removeTop).
ConditionalsToFactors(bn) ==
    [i \in DOMAIN bn |-> bn[i].frontals \cup bn[i].separator]

\* ------------------------------------------------------ BayesTree (spec.md 4.2)
\* IndexTable<Symbol> index(ordering): each key's position in the ordering.
IndexTable(ord) == [k \in Range(ord) |-> CHOOSE i \in DOMAIN ord : ord[i] = k]

\* findParentClique(separator, index): the representative of the parent
\* clique is the separator variable lowest in the ordering, the one
\* eliminated first and so the deepest in the new tree.  spec.md 4.2/4.3:
\* the owning cliques of all separator variables must be that clique or
\* ancestors of it; if no such single clique exists this is a structural
\* error.  Returns [ok, rep].
findParentClique(cl, nd, separator, index) ==
    IF separator = {} \/ ~(separator \subseteq DOMAIN index)
                      \/ ~(separator \subseteq DOMAIN nd)
    THEN [ok |-> FALSE, rep |-> 0]
    ELSE LET rep == CHOOSE v \in separator :
                        \A w \in separator : index[v] <= index[w]
         IN  [ok  |-> \A w \in separator : nd[w] \in PathToRoot(cl, nd[rep]),
              rep |-> rep]

\* addClique: a new clique holding the conditional, attached as a child of
\* parent (or as a new root), each frontal variable registered in the index.
addClique(cl, nd, conditional, parent) ==
    LET id   == NewId(cl)
        node == [frontals  |-> conditional.frontals,
                 separator |-> conditional.separator,
                 parent    |-> parent,
                 children  |-> <<>>]
        cl1  == IF parent = NoClique THEN cl
                ELSE [cl EXCEPT ![parent].children = Append(@, id)]
    IN  [cliques |-> (id :> node) @@ cl1,
         nodes   |-> [k \in conditional.frontals |-> id] @@ nd,
         ok      |-> TRUE]

\* insert(conditional, index), spec.md 4.2: an empty separator starts a new
\* root; otherwise the parent is the clique findParentClique designates, and
\* the call fails with a structural error when there is none.
insert(cl, nd, conditional, index) ==
    IF conditional.separator = {} THEN addClique(cl, nd, conditional, NoClique)
    ELSE LET found == findParentClique(cl, nd, conditional.separator, index)
         IN  IF ~found.ok THEN [cliques |-> cl, nodes |-> nd, ok |-> FALSE]
             ELSE addClique(cl, nd, conditional, nd[found.rep])

\* removeTop(keys, bn, orphans), spec.md 4.2.  For each key that has an
\* owning clique, the clique and the path from it up to its root are
\* collected (ISAM-inl.h calls the result "the topless bayesTree" and puts
\* the orphans at "the bottom of the new tree"); a key that is not in the
\* index is skipped.  The collected cliques' conditionals are returned as
\* bn, their children outside the collected set are detached (parent link
\* cleared) and returned as orphans, and the collected cliques' frontal
\* variables leave the index.
removeTop(cl, nd, ks) ==
    LET owners    == {nd[k] : k \in ks \cap DOMAIN nd}
        collected == UNION {PathToRoot(cl, c) : c \in owners}
        detached  == {c \in DOMAIN cl \ collected :
                        \E r \in collected : c \in Range(cl[r].children)}
        gone      == UNION {cl[c].frontals : c \in collected}
        order     == SetToSeq(collected)
    IN  [cliques |-> [c \in DOMAIN cl \ collected |->
                        IF c \in detached THEN [cl[c] EXCEPT !.parent = NoClique]
                        ELSE cl[c]],
         nodes   |-> [k \in DOMAIN nd \ gone |-> nd[k]],
         bn      |-> [i \in DOMAIN order |->
                        [frontals  |-> cl[order[i]].frontals,
                         separator |-> cl[order[i]].separator]],
         orphans |-> SetToSeq(detached)]

\* BayesTree(bayesNet), the base constructor ISAM(bayesNet) delegates to:
\* the conditionals are inserted last-eliminated first, indexed by their
\* position in the net (spec.md 3, lifecycle, and 4.3 step 6).
RECURSIVE InsertAll(_, _, _, _)
InsertAll(cl, nd, conds, index) ==
    IF conds = <<>> THEN [cliques |-> cl, nodes |-> nd, ok |-> TRUE]
    ELSE LET r == insert(cl, nd, Head(conds), index)
         IN  IF ~r.ok THEN r
             ELSE InsertAll(r.cliques, r.nodes, Tail(conds), index)

NetOrdering(bayesNet) ==
    [i \in DOMAIN bayesNet |-> CHOOSE k \in bayesNet[i].frontals : TRUE]

BayesTreeOf(bayesNet) ==
    InsertAll(<<>>, <<>>, Reverse(bayesNet), IndexTable(NetOrdering(bayesNet)))

\* ------------------------------------------------- ISAM::update_internal
\* Mutant of ContaminatedKeys: only the first key of each new factor.
ContaminatedKeys_FirstKeyOnly(newF) == {Min(f) : f \in Range(newF)}

\* Mutant of ContaminatedKeys: every key of the tree, whatever the new factors.
ContaminatedKeys_WholeTree(newF) == keys(newF) \cup DOMAIN nodes

\* newFactors.keys(): the contaminated keys handed to removeTop.
ContaminatedKeys(newF) == keys(newF)

\* Mutant of CombinedFactors: the freed factors are left out.
CombinedFactors_OnlyNew(bn, newF) == newF

\* Mutant of CombinedFactors: the new factors are never pushed back.
CombinedFactors_OnlyFreed(bn, newF) == ConditionalsToFactors(bn)

\* FactorGraph<Factor> factors(bn); factors.push_back(newFactors);
CombinedFactors(bn, newF) == ConditionalsToFactors(bn) \o newF

\* ordering = factors.getOrdering(), or the sorted key list under SORT_KEYS:
\* some ordering of the keys of the combined graph.
Orderings(factors) == Perms(keys(factors))

\* Mutant of InsertionOrder: the conditionals are inserted in the order
\* eliminate produced them (begin() to end()).
InsertionOrder_Forward(bayesNet) == bayesNet

\* Mutant of InsertionOrder: the loop stops one short of rend(), so the
\* first-eliminated conditional is never inserted.
InsertionOrder_StopsOneShort(bayesNet) ==
    IF bayesNet = <<>> THEN <<>> ELSE Reverse(Tail(bayesNet))

\* for (rit = bayesNet.rbegin(); rit != bayesNet.rend(); ++rit)
\*     this->insert(*rit, index);
InsertionOrder(bayesNet) == Reverse(bayesNet)

\* Mutant of AttachOrphan: the representative is the separator variable with
\* the highest index in the ordering, not the lowest.
AttachOrphan_HighestIndex(cl, nd, orphan, index) ==
    LET separator == cl[orphan].separator
        found     == findParentClique(cl, nd, separator, index)
    IN  IF ~found.ok THEN [cliques |-> cl, ok |-> FALSE]
        ELSE LET rep    == CHOOSE v \in separator :
                               \A w \in separator : index[v] >= index[w]
                 parent == nd[rep]
             IN  [cliques |-> [cl EXCEPT ![parent].children = Append(@, orphan),
                                          ![orphan].parent = parent],
                  ok      |-> TRUE]

\* Mutant of AttachOrphan: the orphan is attached as a fresh clique, its own
\* child list emptied.
AttachOrphan_DropsSubtree(cl, nd, orphan, index) ==
    LET found == findParentClique(cl, nd, cl[orphan].separator, index)
    IN  IF ~found.ok THEN [cliques |-> cl, ok |-> FALSE]
        ELSE LET parent == nd[found.rep]
             IN  [cliques |-> [cl EXCEPT ![parent].children = Append(@, orphan),
                                          ![orphan].parent = parent,
                                          ![orphan].children = <<>>],
                  ok      |-> TRUE]

\* Mutant of AttachOrphan: the orphan's parent back-reference is not set.
AttachOrphan_NoBackReference(cl, nd, orphan, index) ==
    LET found == findParentClique(cl, nd, cl[orphan].separator, index)
    IN  IF ~found.ok THEN [cliques |-> cl, ok |-> FALSE]
        ELSE [cliques |-> [cl EXCEPT ![nd[found.rep]].children = Append(@, orphan)],
              ok      |-> TRUE]

\* Mutant of AttachOrphan: the orphan is not added to the parent's child list.
AttachOrphan_NoChildLink(cl, nd, orphan, index) ==
    LET found == findParentClique(cl, nd, cl[orphan].separator, index)
    IN  IF ~found.ok THEN [cliques |-> cl, ok |-> FALSE]
        ELSE [cliques |-> [cl EXCEPT ![orphan].parent = nd[found.rep]],
              ok      |-> TRUE]

\* Mutant of AttachOrphan: a failed parent search is ignored and the orphan
\* is linked under the clique of the representative.
AttachOrphan_Unchecked(cl, nd, orphan, index) ==
    LET found == findParentClique(cl, nd, cl[orphan].separator, index)
    IN  IF found.rep \notin DOMAIN nd THEN [cliques |-> cl, ok |-> FALSE]
        ELSE [cliques |-> [cl EXCEPT ![nd[found.rep]].children = Append(@, orphan),
                                     ![orphan].parent = nd[found.rep]],
              ok      |-> TRUE]

\* One pass of the orphan loop: look up the parent through its
\* representative, then link parent and orphan both ways.  A throw in
\* findParentClique or operator[] leaves the orphan as it is.
AttachOrphan(cl, nd, orphan, index) ==
    LET found == findParentClique(cl, nd, cl[orphan].separator, index)
    IN  IF ~found.ok THEN [cliques |-> cl, ok |-> FALSE]
        ELSE LET parent == nd[found.rep]
             IN  [cliques |-> [cl EXCEPT ![parent].children = Append(@, orphan),
                                          ![orphan].parent = parent],
                  ok      |-> TRUE]

\* BOOST_FOREACH(sharedClique orphan, orphans) { ... }
RECURSIVE AttachOrphans(_, _, _, _)
AttachOrphans(cl, nd, orph, index) ==
    IF orph = <<>> THEN [cliques |-> cl, ok |-> TRUE]
    ELSE LET r == AttachOrphan(cl, nd, Head(orph), index)
         IN  IF ~r.ok THEN r
             ELSE AttachOrphans(r.cliques, nd, Tail(orph), index)

\* update_internal(newFactors, orphans).  ord is the ordering getOrdering
\* returns and degenerate tells whether eliminate meets a rank-deficient
\* block and throws.  There is no try/catch and no roll-back: an exception
\* leaves the members as they are at the throw.
update_internal(cl, nd, newF, ord, degenerate) ==
    LET top      == removeTop(cl, nd, ContaminatedKeys(newF))
        factors  == CombinedFactors(top.bn, newF)
        index    == IndexTable(ord)
        bayesNet == eliminate(factors, ord)
        ins      == InsertAll(top.cliques, top.nodes, InsertionOrder(bayesNet), index)
        att      == AttachOrphans(ins.cliques, ins.nodes, top.orphans, index)
    IN  IF degenerate
        THEN [cliques |-> top.cliques, nodes |-> top.nodes,
              orphans |-> top.orphans, result |-> "NumericDegeneracy"]
        ELSE IF ~ins.ok
        THEN [cliques |-> ins.cliques, nodes |-> ins.nodes,
              orphans |-> top.orphans, result |-> "StructuralError"]
        ELSE IF ~att.ok
        THEN [cliques |-> att.cliques, nodes |-> ins.nodes,
              orphans |-> top.orphans, result |-> "StructuralError"]
        ELSE [cliques |-> att.cliques, nodes |-> ins.nodes,
              orphans |-> top.orphans, result |-> "ok"]

\* The graph update_internal re-eliminates for a given call.
GraphToEliminate(cl, nd, newF) ==
    CombinedFactors(removeTop(cl, nd, ContaminatedKeys(newF)).bn, newF)

\* ------------------------------------------------------------ state machine
\* ISAM::update(newFactors): Cliques orphans; update_internal(newFactors,
\* orphans).  A caller stops using the tree after a reported failure
\* (spec.md 5).  With hostile = FALSE the factors are numerically well posed.
Update(hostile) ==
    /\ result = "ok"
    /\ nUpdates < (IF hostile THEN MaxNetUpdates ELSE MaxUpdates)
    /\ \E newF \in Batches, degenerate \in (IF hostile THEN BOOLEAN ELSE {FALSE}) :
         /\ degenerate => keys(newF) \ DOMAIN nodes # {}
         /\ \E ord \in Orderings(GraphToEliminate(cliques, nodes, newF)) :
              LET r == update_internal(cliques, nodes, newF, ord, degenerate)
              IN  /\ cliques' = r.cliques
                  /\ nodes' = r.nodes
                  /\ orphans' = r.orphans
                  /\ result' = r.result
                  /\ newFactors' = newF
                  /\ ordering' = ord
                  /\ nUpdates' = nUpdates + 1
                  /\ pre' = [cliques |-> cliques, nodes |-> nodes]
                  /\ allFactors' = allFactors \cup Range(newF)
                  /\ UNCHANGED <<hybridVars, equalityVars, tableVars>>

\* No hybrid tree: the state of the hybrid part while ISAM is exercised.
NoHybridTree ==
    /\ hCliques = <<>>
    /\ hNodes = <<>>
    /\ assignment = <<>>
    /\ visited = <<>>
    /\ added_keys = <<>>
    /\ gbn = <<>>

\* A double: a number, or the IEEE infinity or not-a-number.
Num(n) == <<"num", n>>

Inf == <<"inf", 0>>

NaN == <<"nan", 0>>

\* No call made yet on the equality factor, and no value returned.
NoCall == [op |-> "none", xj |-> 0, H |-> FALSE]

NoOutcome == [thrown |-> FALSE, value |-> NaN, A |-> "none", factor |-> FALSE]

\* No equality factor: the state of that part while another is exercised.
NoEquality ==
    /\ equality = <<>>
    /\ call = NoCall
    /\ outcome = NoOutcome

\* No sum or max call made yet on the table factor.
NoResult == [op |-> "none", cards |-> <<>>, table |-> <<>>]

\* No table factor: the state of that part while another is exercised.
NoTable ==
    /\ f1 = <<>>
    /\ actual = NoResult

\* No ISAM: the state of the tree part while another is exercised.
NoIsam ==
    /\ cliques = <<>>
    /\ nodes = <<>>
    /\ orphans = <<>>
    /\ newFactors = <<>>
    /\ ordering = <<>>
    /\ result = "ok"
    /\ nUpdates = 0
    /\ pre = [cliques |-> <<>>, nodes |-> <<>>]
    /\ allFactors = {}

\* ISAM() and ISAM(bayesNet) on the result of a batch elimination.
Init ==
    /\ NoHybridTree
    /\ NoEquality
    /\ NoTable
    /\ \E g \in Batches :
         \E ord \in Orderings(g) :
           LET t == BayesTreeOf(eliminate(g, ord))
           IN
            /\ cliques = t.cliques
            /\ nodes = t.nodes
            /\ orphans = <<>>
            /\ newFactors = <<>>
            /\ ordering = <<>>
            /\ result = "ok"
            /\ nUpdates = 0
            /\ pre = [cliques |-> t.cliques, nodes |-> t.nodes]
            /\ allFactors = Range(g)

Next == Update(FALSE)

Spec == Init /\ [][Next]_vars

\* ISAM(bayesNet) on any Bayes net the constructor accepts: conditional i
\* has frontal key i and any separator among the later keys.
RECURSIVE NetsFrom(_, _)
NetsFrom(i, n) ==
    IF i > n THEN {<<>>}
    ELSE {<<[frontals |-> {i}, separator |-> S]>> \o rest :
             S \in SUBSET ((i + 1)..n), rest \in NetsFrom(i + 1, n)}

BayesNets == UNION {NetsFrom(1, n) : n \in 0..MaxKey}

InitNet ==
    /\ NoHybridTree
    /\ NoEquality
    /\ NoTable
    /\ \E net \in BayesNets :
         LET t == BayesTreeOf(net)
         IN
            /\ t.ok
            /\ cliques = t.cliques
            /\ nodes = t.nodes
            /\ orphans = <<>>
            /\ newFactors = <<>>
            /\ ordering = <<>>
            /\ result = "ok"
            /\ nUpdates = 0
            /\ pre = [cliques |-> t.cliques, nodes |-> t.nodes]
            /\ allFactors = {c.frontals \cup c.separator : c \in Range(net)}

NextNet == Update(TRUE)

SpecNet == InitNet /\ [][NextNet]_vars

\* ------------------------------------------------------- tree observations
\* The cliques of tree cl in which key k is frontal.
OwnersOf(cl, k) == {c \in DOMAIN cl : k \in cl[c].frontals}

\* The keys that are frontal somewhere in cl.
FrontalKeys(cl) == UNION {cl[c].frontals : c \in DOMAIN cl}

\* How many times clique c is listed in the child list of clique p.
ChildCount(cl, p, c) == Cardinality({i \in DOMAIN cl[p].children : cl[p].children[i] = c})

\* The cliques that list c as a child.
ListedUnder(cl, c) == {p \in DOMAIN cl : ChildCount(cl, p, c) > 0}

\* An update call has completed successfully at least once.
Updated == nUpdates > 0 /\ result = "ok"

\* ------------------------------------------------------------------ claims
\* C1: after every successfully completed update, every key present in the
\* tree is frontal in exactly one clique and the index maps the key to that
\* clique; no indexed key points to a clique that does not hold it.
C1_FrontalInExactlyOneClique ==
    result = "ok" =>
        /\ \A k \in FrontalKeys(cliques) \cup DOMAIN nodes :
              /\ k \in DOMAIN nodes
              /\ OwnersOf(cliques, k) = {nodes[k]}

\* C1 witness: a second or later update detached an orphan and the
\* resulting tree holds at least three variables.
C1_Witness ==
    /\ Updated
    /\ nUpdates >= 2
    /\ orphans # <<>>
    /\ Cardinality(DOMAIN nodes) >= 3

\* C2: after every update, every variable in the separator of every clique
\* is frontal in some strict ancestor of that clique.
C2_RunningIntersection ==
    result = "ok" =>
        \A c \in DOMAIN cliques :
            \A v \in cliques[c].separator :
                \E a \in Ancestors(cliques, c) : v \in cliques[a].frontals

\* C2 witness: an update reattached an orphan whose separator has two
\* variables, below newly inserted cliques.
C2_Witness ==
    /\ Updated
    /\ \E o \in Range(orphans) :
          /\ o \in DOMAIN cliques
          /\ Cardinality(cliques[o].separator) >= 2
          /\ cliques[o].parent # NoClique

\* C3: after every completed update the cliques form a forest: a clique is
\* listed exactly once in the child list of its parent and in no other child
\* list, a root is listed nowhere, every link points to a live clique, and
\* no clique is its own ancestor.
C3_Forest ==
    result = "ok" =>
        \A c \in DOMAIN cliques :
            /\ cliques[c].parent \in DOMAIN cliques \cup {NoClique}
            /\ Range(cliques[c].children) \subseteq DOMAIN cliques
            /\ \A p \in DOMAIN cliques :
                  ChildCount(cliques, p, c) = (IF cliques[c].parent = p THEN 1 ELSE 0)
            /\ c \notin Ancestors(cliques, c)

\* C3 witness: after an update some clique has two children, one of them a
\* reattached orphan.
C3_Witness ==
    /\ Updated
    /\ \E p \in DOMAIN cliques :
          /\ Len(cliques[p].children) >= 2
          /\ \E o \in Range(orphans) : o \in Range(cliques[p].children)

\* C4: after a successful update every orphan removeTop returned is attached
\* under exactly one parent clique, and every key owned before the call or
\* appearing in newFactors is owned by some clique.
C4_ReattachmentComplete ==
    Updated =>
        /\ \A o \in Range(orphans) :
              /\ o \in DOMAIN cliques
              /\ cliques[o].parent \in DOMAIN cliques
              /\ ListedUnder(cliques, o) = {cliques[o].parent}
              /\ ChildCount(cliques, cliques[o].parent, o) = 1
        /\ (DOMAIN pre.nodes) \cup keys(newFactors) \subseteq FrontalKeys(cliques)
        /\ (DOMAIN pre.nodes) \cup keys(newFactors) \subseteq DOMAIN nodes

\* C4 witness: an update that detached two orphans completed.
C4_Witness ==
    /\ Updated
    /\ Len(orphans) >= 2

\* A set of factors as a factor graph (the order of the factors is immaterial).
RECURSIVE GraphOf(_)
GraphOf(F) ==
    IF F = {} THEN <<>>
    ELSE LET f == CHOOSE x \in F : TRUE IN <<f>> \o GraphOf(F \ {f})

\* The Bayes nets one batch elimination of every factor handed to the tree
\* so far can produce, one per ordering of their keys.
BatchNets ==
    {eliminate(GraphOf(allFactors), ord) : ord \in Perms(UNION allFactors)}

\* The tree holds, for every key, the conditional Bayes net bn holds for it:
\* the same frontal variables given the same separator.
SameConditionals(bn) ==
    /\ DOMAIN nodes = UNION {c.frontals : c \in Range(bn)}
    /\ \A c \in Range(bn) : \A k \in c.frontals :
          /\ cliques[nodes[k]].frontals = c.frontals
          /\ cliques[nodes[k]].separator = c.separator

\* The tree holds a conditional for exactly the keys of bn, each on the same
\* frontal variables and given a separator that contains the one in bn.
CoversConditionals(bn) ==
    /\ DOMAIN nodes = UNION {c.frontals : c \in Range(bn)}
    /\ \A c \in Range(bn) : \A k \in c.frontals :
          /\ cliques[nodes[k]].frontals = c.frontals
          /\ c.separator \subseteq cliques[nodes[k]].separator

\* C5 as stated: after update(B1); ...; update(Bn) the tree holds, for every
\* key, the same conditional (same frontals, same separator) as one batch
\* elimination of B1 \cup ... \cup Bn under some ordering.
C5_SameAsBatch ==
    result = "ok" => \E bn \in BatchNets : SameConditionals(bn)

\* C5 amended: the tree holds a conditional for exactly the keys of the
\* batch elimination under some ordering, on the same frontal variables, and
\* each separator contains the batch separator of that key.
C5_CoversBatch ==
    result = "ok" => \E bn \in BatchNets : CoversConditionals(bn)

\* C5 witness: after two updates the tree differs from every batch
\* elimination of the same factors in some separator.
C5_Witness ==
    /\ Updated
    /\ nUpdates >= 2
    /\ ~(\E bn \in BatchNets : SameConditionals(bn))
    /\ \E bn \in BatchNets : CoversConditionals(bn)

\* C6: update with an empty factor graph is a no-op: index, cliques (their
\* conditionals and their parent/child links) are as before the call and no
\* orphan is produced.
C6_EmptyUpdateIsNoOp ==
    (nUpdates > 0 /\ newFactors = <<>>) =>
        /\ result = "ok"
        /\ cliques = pre.cliques
        /\ nodes = pre.nodes
        /\ orphans = <<>>

\* C6 witness: update(empty) was called on a tree of at least three cliques
\* built by earlier updates.
C6_Witness ==
    /\ nUpdates >= 2
    /\ newFactors = <<>>
    /\ Cardinality(DOMAIN pre.cliques) >= 3
    /\ \E c \in DOMAIN pre.cliques : pre.cliques[c].parent # NoClique

\* The separator of orphan o is indexed, and no owning clique of one of its
\* variables has the owning cliques of all the others on its path to the root.
SpansDisjointSubtrees(o) ==
    /\ o \in DOMAIN cliques
    /\ cliques[o].separator \subseteq DOMAIN nodes
    /\ ~ \E v \in cliques[o].separator :
            \A w \in cliques[o].separator :
                nodes[w] \in PathToRoot(cliques, nodes[v])

C8_AbsentKeyIsNotAnError ==
    (nUpdates > 0 /\ keys(newFactors) \ DOMAIN pre.nodes # {}) =>
        /\ result = "ok"
        /\ \A k \in keys(newFactors) :
              /\ k \in DOMAIN nodes
              /\ OwnersOf(cliques, k) = {nodes[k]}

\* C8 witness: the new factor joins a key the tree owned, whose clique
\* removeTop removed, with a key the tree did not own.
C8_Witness ==
    /\ Updated
    /\ keys(newFactors) \ DOMAIN pre.nodes # {}
    /\ keys(newFactors) \cap DOMAIN pre.nodes # {}
    /\ pre.cliques # cliques

\* ISAM holds no validity mark: its state is the BayesTree base alone.
MarkedInvalid == FALSE

\* C9: if update aborts after removeTop has removed cliques and index
\* entries, the index and the clique set are as before the call or the tree
\* is marked invalid.
C9_AbortRestoresOrInvalidates ==
    (nUpdates > 0 /\ result # "ok") =>
        \/ (cliques = pre.cliques /\ nodes = pre.nodes)
        \/ MarkedInvalid

\* ------------------------------------------- ISAM::update, step by step
\* What removeTop returned in the last update call.
Top == removeTop(pre.cliques, pre.nodes, ContaminatedKeys(newFactors))

\* The Bayes net eliminate produced in the last update call.
Eliminated == eliminate(CombinedFactors(Top.bn, newFactors), ordering)

\* The clique c and every clique below it in cl.
SubtreeOf(cl, c) == {d \in DOMAIN cl : c \in PathToRoot(cl, d)}

\* How many times factor f occurs in graph.
Occurrences(graph, f) == Cardinality({i \in DOMAIN graph : graph[i] = f})

\* The tree built from f(x1), f(x1,x2) under the ordering [x1,x2]: x2 is the
\* root and x1 given x2 its child.
IsScenarioTree(cl, nd) ==
    /\ DOMAIN nd = {1, 2}
    /\ DOMAIN cl = {nd[1], nd[2]}
    /\ nd[1] # nd[2]
    /\ cl[nd[2]] = [frontals |-> {2}, separator |-> {}, parent |-> NoClique,
                    children |-> <<nd[1]>>]
    /\ cl[nd[1]] = [frontals |-> {1}, separator |-> {2}, parent |-> nd[2],
                    children |-> <<>>]

\* The last call was update({f(x2,x3)}) on the tree of f(x1), f(x1,x2).
InScenario ==
    /\ Updated
    /\ allFactors = {{1}, {1, 2}, {2, 3}}
    /\ IsScenarioTree(pre.cliques, pre.nodes)
    /\ newFactors = <<{2, 3}>>

\* C15: in the scenario f(x1), f(x1,x2) under [x1,x2], then
\* update({f(x2,x3)}): the contaminated keys are {x2,x3}; removeTop frees the
\* clique of x2 and not the clique of x1, which survives with its conditional
\* unchanged; the final tree holds exactly x1, x2, x3, each frontal in
\* exactly one clique.
C15_ScenarioX2X3 ==
    InScenario =>
        /\ ContaminatedKeys(newFactors) = {2, 3}
        /\ Top.bn = <<[frontals |-> {2}, separator |-> {}]>>
        /\ pre.nodes[1] \in DOMAIN Top.cliques
        /\ nodes[1] = pre.nodes[1]
        /\ cliques[nodes[1]].frontals = {1}
        /\ cliques[nodes[1]].separator = {2}
        /\ DOMAIN nodes = {1, 2, 3}
        /\ FrontalKeys(cliques) = {1, 2, 3}
        /\ \A k \in {1, 2, 3} : OwnersOf(cliques, k) = {nodes[k]}

\* The scenario has run, and x1 was an orphan now attached under x2.
C15_Witness ==
    /\ InScenario
    /\ orphans = <<nodes[1]>>
    /\ cliques[nodes[1]].parent = nodes[2]

\* C17: inside update the new conditionals are inserted in exactly the
\* reverse of the order eliminate produced them, so every variable of a
\* conditional's separator is registered in the index when the conditional is
\* inserted; and every orphan is attached after all of them, under a clique
\* inserted in this call.
C17_ReverseInsertionOrder ==
    nUpdates > 0 =>
        LET bn    == Eliminated
            order == InsertionOrder(bn)
        IN  /\ order = [i \in DOMAIN bn |-> bn[Len(bn) + 1 - i]]
            /\ \A i \in DOMAIN order :
                  order[i].separator \subseteq
                      (DOMAIN Top.nodes) \cup UNION {order[j].frontals : j \in 1..(i - 1)}
            /\ result = "ok"
            /\ \A o \in Range(orphans) :
                  /\ cliques[o].parent \in DOMAIN cliques
                  /\ cliques[cliques[o].parent].frontals
                        \subseteq UNION {bn[i].frontals : i \in DOMAIN bn}

\* An update inserted at least two conditionals with a separator and then
\* attached an orphan.
C17_Witness ==
    /\ Updated
    /\ Cardinality({i \in DOMAIN Eliminated : Eliminated[i].separator # {}}) >= 2
    /\ orphans # <<>>

\* C18: the graph that is re-eliminated is exactly the factors freed by
\* removeTop together with all of newFactors, none dropped or duplicated, and
\* the ordering holds every variable of that graph exactly once and no other
\* variable, in particular none still frontal in a clique left in the tree.
C18_CombinedGraphAndOrdering ==
    nUpdates > 0 =>
        LET freed == ConditionalsToFactors(Top.bn)
            graph == GraphToEliminate(pre.cliques, pre.nodes, newFactors)
        IN  /\ Len(graph) = Len(freed) + Len(newFactors)
            /\ \A f \in Range(graph) \cup Range(freed) \cup Range(newFactors) :
                  Occurrences(graph, f) = Occurrences(freed, f) + Occurrences(newFactors, f)
            /\ Range(ordering) = keys(graph)
            /\ Len(ordering) = Cardinality(keys(graph))
            /\ Range(ordering) \cap FrontalKeys(Top.cliques) = {}

\* An update re-eliminated freed factors together with a new factor while
\* other cliques stayed in the tree.
C18_Witness ==
    /\ Updated
    /\ Top.bn # <<>>
    /\ newFactors # <<>>
    /\ DOMAIN Top.cliques # {}

\* C19: update leaves every clique that removeTop did not collect unchanged:
\* its frontals, separator, index entries and child list are as before the
\* call; only the parent of an orphan root changes, and it becomes a clique
\* that removeTop did not leave in the tree, so only new cliques gain
\* children.
C19_UncollectedCliquesUnchanged ==
    Updated =>
        \A c \in DOMAIN Top.cliques :
            /\ c \in DOMAIN cliques
            /\ cliques[c].frontals = pre.cliques[c].frontals
            /\ cliques[c].separator = pre.cliques[c].separator
            /\ cliques[c].children = pre.cliques[c].children
            /\ \A k \in pre.cliques[c].frontals : pre.nodes[k] = c /\ nodes[k] = c
            /\ IF c \in Range(Top.orphans)
               THEN cliques[c].parent \notin DOMAIN Top.cliques
               ELSE cliques[c].parent = pre.cliques[c].parent

\* An update detached an orphan that has a child of its own and attached it
\* again, while another clique stayed where it was.
C19_Witness ==
    /\ Updated
    /\ \E o \in Range(orphans) : cliques[o].children # <<>>
    /\ DOMAIN Top.cliques \ Range(orphans) # {}

\* C20: no orphan returned by removeTop is contaminated: neither the orphan
\* nor any clique below it has a key of newFactors among its frontals.
C20_OrphansNotContaminated ==
    nUpdates > 0 =>
        \A o \in Range(Top.orphans) :
            \A d \in SubtreeOf(Top.cliques, o) :
                Top.cliques[d].frontals \cap keys(newFactors) = {}

\* removeTop returned an orphan with a clique below it, for a factor on two
\* keys.
C20_Witness ==
    /\ nUpdates > 0
    /\ \E o \in Range(Top.orphans) : SubtreeOf(Top.cliques, o) # {o}
    /\ Cardinality(keys(newFactors)) = 2

\* C21: after a successful update the keys of the index are the keys it held
\* before the call together with the keys of newFactors: none dropped, none
\* that is in neither set.
C21_IndexKeysAreOldAndNew ==
    Updated => DOMAIN nodes = (DOMAIN pre.nodes) \cup keys(newFactors)

\* An update added a key to an index that held other keys, and re-eliminated
\* a key the index already held.
C21_Witness ==
    /\ Updated
    /\ keys(newFactors) \ DOMAIN pre.nodes # {}
    /\ keys(newFactors) \cap DOMAIN pre.nodes # {}
    /\ (DOMAIN pre.nodes) \ keys(newFactors) # {}

\* C22: after every completed update every non-root clique, newly inserted
\* or re-attached, has each variable of its separator among the frontal or
\* separator variables of its direct parent, and that parent is the clique
\* of one of its separator variables.
C22_ParentContainsSeparator ==
    Updated =>
        \A c \in DOMAIN cliques :
            cliques[c].parent # NoClique =>
                /\ cliques[c].parent \in DOMAIN cliques
                /\ cliques[c].separator \subseteq
                      cliques[cliques[c].parent].frontals
                          \cup cliques[cliques[c].parent].separator
                /\ \E rep \in cliques[c].separator : nodes[rep] = cliques[c].parent

\* An update inserted a clique with two separator variables and re-attached
\* an orphan with two separator variables.
C22_Witness ==
    /\ Updated
    /\ \E i \in DOMAIN Eliminated : Cardinality(Eliminated[i].separator) >= 2
    /\ \E o \in Range(orphans) : Cardinality(cliques[o].separator) >= 2

\* ------------------------------------------------ HybridBayesTree::optimize
HybridKeys == 1..MaxHybridKey

\* The kinds of conditional a clique can hold: a Gaussian mixture (isHybrid),
\* a discrete-only conditional, or a plain Gaussian conditional.
Kinds == {"hybrid", "discrete", "continuous"}

\* conditional->isHybrid()
isHybrid(conditional) == conditional.kind = "hybrid"

\* Mutant of asMixture: the branch stored first (every discrete key at 0) is
\* taken, whatever the assignment says.
asMixture_FirstBranch(clique, conditional, values) ==
    [clique   |-> clique,
     frontals |-> conditional.frontals,
     branch   |-> [m \in conditional.modes |-> 0]]

\* (*gm)(assignment): the Gaussian conditional the mixture stores for the
\* values the assignment gives to the discrete keys the mixture depends on.
asMixture(clique, conditional, values) ==
    [clique   |-> clique,
     frontals |-> conditional.frontals,
     branch   |-> [m \in conditional.modes |-> values[m]]]

\* for (auto&& node : nodes()) { ... }: order is what is left of the
\* iteration over the key-to-clique map, added and net are added_keys and
\* gbn so far.
RECURSIVE optimizeLoop(_, _, _, _)
optimizeLoop(order, values, added, net) ==
    IF order = <<>> THEN [added_keys |-> added, gbn |-> net]
    ELSE LET key         == Head(order)
             clique      == hNodes[key]
             conditional == hCliques[clique]
         IN  IF key \notin Range(added)
             THEN optimizeLoop(Tail(order), values,
                      added \o SetToSeq(conditional.frontals),
                      IF isHybrid(conditional)
                      THEN Append(net, asMixture(clique, conditional, values))
                      ELSE net)
             ELSE optimizeLoop(Tail(order), values, added, net)

\* The keys that are frontal in a discrete-only clique of tree hc.
DiscreteKeys(hc) == UNION {hc[c].frontals : c \in {d \in DOMAIN hc : hc[d].kind = "discrete"}}

\* The hybrid Bayes trees over HybridKeys: the cliques partition the keys
\* into frontal sets, each clique holds a conditional of one kind, and a
\* mixture depends on some of the discrete keys of the tree.
HybridNodeMaps ==
    {nd \in [HybridKeys -> HybridKeys] :
        /\ \E n \in HybridKeys : Range(nd) = 1..n
        /\ \A c, d \in Range(nd) :
              c < d => Min({k \in HybridKeys : nd[k] = c}) < Min({k \in HybridKeys : nd[k] = d})}

HybridTreesOver(nd) ==
    LET ids == Range(nd)
        discrete(kd) == {k \in HybridKeys : kd[nd[k]] = "discrete"}
    IN  UNION {{[c \in ids |-> [frontals |-> {k \in HybridKeys : nd[k] = c},
                                kind     |-> kd[c],
                                modes    |-> md[c]]]
                  : md \in {m \in [ids -> SUBSET discrete(kd)] :
                               \A c \in ids : (m[c] # {}) <=> (kd[c] = "hybrid")}}
               : kd \in [ids -> Kinds]}

HybridTrees == UNION {HybridTreesOver(nd) : nd \in HybridNodeMaps}

InitHybrid ==
    /\ cliques = <<>>
    /\ nodes = <<>>
    /\ orphans = <<>>
    /\ newFactors = <<>>
    /\ ordering = <<>>
    /\ result = "ok"
    /\ nUpdates = 0
    /\ pre = [cliques |-> <<>>, nodes |-> <<>>]
    /\ allFactors = {}
    /\ hCliques \in HybridTrees
    /\ hNodes = [k \in HybridKeys |-> CHOOSE c \in DOMAIN hCliques : k \in hCliques[c].frontals]
    /\ assignment = <<>>
    /\ visited = <<>>
    /\ added_keys = <<>>
    /\ gbn = <<>>
    /\ NoEquality
    /\ NoTable

\* optimize(assignment), up to the call of gbn.optimize(): a complete
\* assignment of the discrete keys, and the order in which nodes() is
\* iterated.
Optimize ==
    /\ visited = <<>>
    /\ \E values \in [DiscreteKeys(hCliques) -> {0, 1}], order \in Perms(DOMAIN hNodes) :
          LET r == optimizeLoop(order, values, <<>>, <<>>)
          IN  /\ assignment' = values
              /\ visited' = order
              /\ added_keys' = r.added_keys
              /\ gbn' = r.gbn
    /\ UNCHANGED <<hCliques, hNodes>>
    /\ UNCHANGED <<isamVars, equalityVars, tableVars>>

NextHybrid == Optimize

SpecHybrid == InitHybrid /\ [][NextHybrid]_vars

\* How many conditionals of gbn come from clique c.
EmittedFor(c) == Cardinality({i \in DOMAIN gbn : gbn[i].clique = c})

\* How many conditionals of gbn have key k among their frontal variables.
EmittedOn(k) == Cardinality({i \in DOMAIN gbn : k \in gbn[i].frontals})

\* optimize has run over the whole node map.
Optimized == visited # <<>>

\* C10: optimize emits each clique's conditional at most once and each
\* variable's conditional exactly once, whatever the iteration order over
\* the node map and however often a clique is visited.  The variables that
\* have a conditional to emit into a Gaussian Bayes net are those frontal in
\* a clique that is not discrete-only.
C10_EachConditionalOnce ==
    Optimized =>
        /\ \A c \in DOMAIN hCliques : EmittedFor(c) <= 1
        /\ \A k \in HybridKeys \ DiscreteKeys(hCliques) : EmittedOn(k) = 1

\* What the seen-set does guarantee: no clique, and no key, is emitted
\* twice, and every key is recorded in added_keys exactly once.
NeverEmittedTwice ==
    Optimized =>
        /\ \A c \in DOMAIN hCliques : EmittedFor(c) <= 1
        /\ \A k \in HybridKeys : EmittedOn(k) <= 1
        /\ \A k \in HybridKeys :
              Cardinality({i \in DOMAIN added_keys : added_keys[i] = k}) = 1

\* The keys that are frontal in a clique holding a mixture or a plain
\* Gaussian conditional: the continuous variables of the tree.
ContinuousKeys(hc) == UNION {hc[c].frontals : c \in {d \in DOMAIN hc : hc[d].kind # "discrete"}}

\* C11: the Gaussian Bayes net assembled by optimize holds a conditional for
\* every continuous variable that is frontal in some clique, whether the
\* clique holds a mixture or a plain Gaussian conditional.
C11_EveryContinuousVariableCovered ==
    Optimized =>
        \A k \in ContinuousKeys(hCliques) : \E i \in DOMAIN gbn : k \in gbn[i].frontals

\* The branches of the mixture of clique c that gbn holds.
BranchesOf(c) == {gbn[i].branch : i \in {j \in DOMAIN gbn : gbn[j].clique = c}}

\* C12: for every clique holding a mixture, gbn holds exactly the one branch
\* the mixture stores for the assignment's values of its discrete keys and no
\* other branch; a discrete-only clique contributes nothing.
C12_ExactlyTheAssignedBranch ==
    Optimized =>
        \A c \in DOMAIN hCliques :
            /\ isHybrid(hCliques[c]) =>
                  /\ EmittedFor(c) = 1
                  /\ BranchesOf(c) = {[m \in hCliques[c].modes |-> assignment[m]]}
            /\ hCliques[c].kind = "discrete" => EmittedFor(c) = 0

\* A mixture over one discrete key m was optimized with m = 0 in the
\* assignment, and gbn holds branch 0 of it and no other branch.
C12_Witness ==
    /\ Optimized
    /\ \E c \in DOMAIN hCliques :
          /\ isHybrid(hCliques[c])
          /\ \E m \in hCliques[c].modes :
                /\ hCliques[c].modes = {m}
                /\ assignment[m] = 0
                /\ BranchesOf(c) = {[n \in {m} |-> 0]}

\* ------------------------------------------------------- NonlinearEquality
Coords == 0..MaxCoord

\* double * double, for the non-negative doubles the factor multiplies.
mul(a, b) ==
    IF a = NaN \/ b = NaN THEN NaN
    ELSE IF a = Inf \/ b = Inf
         THEN (IF a = Num(0) \/ b = Num(0) THEN NaN ELSE Inf)
         ELSE Num(a[2] * b[2])

\* inner_prod(e, e) of a vector of one coordinate.
inner_prod(e) == mul(e, e)

\* logmap(xj, feasible_): the coordinates of feasible_ in the chart at xj.
logmap(xj, feasible) == Num(feasible - xj)

\* The functions handed in as compare_: compare<T> (a.equals(b), exact here)
\* and a comparison up to a tolerance of one unit.
Compares == {"equals", "within"}

compare_(c, a, b) ==
    IF c.compare_ = "equals" THEN a = b
    ELSE (a - b) \in {0 - 1, 0, 1}

\* NonlinearEquality(j, feasible, compare): forces exact evaluation.
ExactEquality(feasible, cmp) ==
    [feasible_ |-> feasible, allow_error_ |-> FALSE, error_gain_ |-> Inf, compare_ |-> cmp]

\* NonlinearEquality(j, feasible, error_gain, compare): allows inexact evaluation.
GainEquality(feasible, error_gain, cmp) ==
    [feasible_ |-> feasible, allow_error_ |-> TRUE, error_gain_ |-> Num(error_gain), compare_ |-> cmp]

\* Mutant of evaluateError: the infeasible branch returns the infinite error
\* also when a derivative is requested.
evaluateError_NeverThrows(c, xj, H) ==
    IF c.allow_error_
    THEN [thrown |-> FALSE, value |-> logmap(xj, c.feasible_), A |-> IF H THEN "eye" ELSE "none"]
    ELSE IF compare_(c, c.feasible_, xj)
         THEN [thrown |-> FALSE, value |-> Num(0), A |-> IF H THEN "eye" ELSE "none"]
         ELSE [thrown |-> FALSE, value |-> Inf, A |-> "none"]

\* evaluateError(xj, H): H says whether a derivative is requested; A is what
\* *H holds on return.
evaluateError(c, xj, H) ==
    IF c.allow_error_
    THEN [thrown |-> FALSE, value |-> logmap(xj, c.feasible_), A |-> IF H THEN "eye" ELSE "none"]
    ELSE IF compare_(c, c.feasible_, xj)
         THEN [thrown |-> FALSE, value |-> Num(0), A |-> IF H THEN "eye" ELSE "none"]
         ELSE IF H
              THEN [thrown |-> TRUE, value |-> NaN, A |-> "none"]
              ELSE [thrown |-> FALSE, value |-> Inf, A |-> "none"]

\* NonlinearFactor1::unwhitenedError(c): evaluateError at the value of the
\* key, no derivative requested.
unwhitenedError(c, xj) == evaluateError(c, xj, FALSE)

\* Mutant of error: the gain is applied only where the value does not compare
\* equal to the feasible one.
error_GainOnlyIfInfeasible(c, xj) ==
    LET e == unwhitenedError(c, xj)
    IN  IF e.thrown THEN [thrown |-> TRUE, value |-> NaN]
        ELSE IF ~compare_(c, xj, c.feasible_)
             THEN [thrown |-> FALSE, value |-> mul(c.error_gain_, inner_prod(e.value))]
             ELSE [thrown |-> FALSE, value |-> Num(0)]

\* error(c)
error(c, xj) ==
    LET e == unwhitenedError(c, xj)
    IN  IF e.thrown THEN [thrown |-> TRUE, value |-> NaN]
        ELSE IF c.allow_error_ \/ ~compare_(c, xj, c.feasible_)
             THEN [thrown |-> FALSE, value |-> mul(c.error_gain_, inner_prod(e.value))]
             ELSE [thrown |-> FALSE, value |-> Num(0)]

\* linearize(x): evaluateError with the matrix A as H; the Gaussian factor
\* is built from A and b only if evaluateError returns.
linearize(c, xj) ==
    LET b == evaluateError(c, xj, TRUE)
    IN  IF b.thrown
        THEN [thrown |-> TRUE, value |-> NaN, A |-> "none", factor |-> FALSE]
        ELSE [thrown |-> FALSE, value |-> b.value, A |-> b.A, factor |-> TRUE]

InitEquality ==
    /\ NoIsam
    /\ NoHybridTree
    /\ NoTable
    /\ equality \in {ExactEquality(f, cmp) : f \in Coords, cmp \in Compares}
                    \cup {GainEquality(f, g, cmp) : f \in Coords, g \in 0..MaxGain, cmp \in Compares}
    /\ call = NoCall
    /\ outcome = NoOutcome

\* A call of error(c) with c[key_] = xj.
Error ==
    /\ \E xj \in Coords :
          LET r == error(equality, xj)
          IN  /\ call' = [op |-> "error", xj |-> xj, H |-> FALSE]
              /\ outcome' = [thrown |-> r.thrown, value |-> r.value, A |-> "none", factor |-> FALSE]
    /\ UNCHANGED <<equality, isamVars, hybridVars, tableVars>>

\* A call of evaluateError(xj, H), with or without a derivative requested.
EvaluateError ==
    /\ \E xj \in Coords, H \in BOOLEAN :
          LET r == evaluateError(equality, xj, H)
          IN  /\ call' = [op |-> "evaluateError", xj |-> xj, H |-> H]
              /\ outcome' = [thrown |-> r.thrown, value |-> r.value, A |-> r.A, factor |-> FALSE]
    /\ UNCHANGED <<equality, isamVars, hybridVars, tableVars>>

\* A call of linearize(x) with x[key_] = xj.
Linearize ==
    /\ \E xj \in Coords :
          /\ call' = [op |-> "linearize", xj |-> xj, H |-> TRUE]
          /\ outcome' = linearize(equality, xj)
    /\ UNCHANGED <<equality, isamVars, hybridVars, tableVars>>

NextEquality == Error \/ EvaluateError \/ Linearize

SpecEquality == InitEquality /\ [][NextEquality]_vars

\* C13: with the exact constructor, linearize at a value that does not
\* compare equal to the feasible one throws and produces no factor (so never
\* one with non-finite entries); at a value that compares equal it returns a
\* factor with identity Jacobian and zero right-hand side.
C13_ExactLinearizeThrowsOrIsExact ==
    (call.op = "linearize" /\ ~equality.allow_error_) =>
        IF compare_(equality, equality.feasible_, call.xj)
        THEN /\ ~outcome.thrown
             /\ outcome.factor
             /\ outcome.A = "eye"
             /\ outcome.value = Num(0)
        ELSE /\ outcome.thrown
             /\ ~outcome.factor

\* linearize of an exact factor was called at an infeasible value and threw.
C13_Witness ==
    /\ call.op = "linearize"
    /\ ~equality.allow_error_
    /\ ~compare_(equality, equality.feasible_, call.xj)
    /\ outcome.thrown

\* C14: with the error-gain constructor, evaluateError, error and linearize
\* never throw, at any value and with or without a derivative, and error(c)
\* is error_gain times the squared norm of the unwhitened error, at values
\* that compare equal to the feasible one too.
C14_GainNeverThrows ==
    (call.op # "none" /\ equality.allow_error_) =>
        /\ ~outcome.thrown
        /\ call.op = "error" =>
              outcome.value = Num(equality.error_gain_[2]
                                  * (equality.feasible_ - call.xj)
                                  * (equality.feasible_ - call.xj))

\* error of a factor with a gain was called at a value that is not the
\* feasible one but compares equal to it, and the gain was applied.
C14_Witness ==
    /\ call.op = "error"
    /\ equality.allow_error_
    /\ call.xj # equality.feasible_
    /\ compare_(equality, call.xj, equality.feasible_)
    /\ ~outcome.thrown
    /\ outcome.value # Num(0)

\* ------------------------------------------------------ DecisionTreeFactor
\* The number of entries of a table over keys with the cardinalities cards.
RECURSIVE TableSize(_)
TableSize(cards) ==
    IF cards = <<>> THEN 1 ELSE Head(cards) * TableSize(Tail(cards))

\* DecisionTreeFactor f(keys, "v1 v2 ..."): the values are listed with the
\* last key changing fastest.  The place of the assignment a (one state,
\* counted from 0, per key) in that list.
RECURSIVE PlaceOf(_, _)
PlaceOf(cards, a) ==
    IF cards = <<>> THEN 1
    ELSE Head(a) * TableSize(Tail(cards)) + PlaceOf(Tail(cards), Tail(a))

\* f(a): the potential of the assignment a.
ValueAt(f, a) == f.table[PlaceOf(f.cards, a)]

\* The assignments of keys with the cardinalities cards.
RECURSIVE Assignments(_)
Assignments(cards) ==
    IF cards = <<>> THEN {<<>>}
    ELSE {<<st>> \o rest : st \in 0..(Head(cards) - 1), rest \in Assignments(Tail(cards))}

\* The binary operations handed to combine: add for sum, the maximum for max.
Apply(op, x, y) ==
    IF op = "sum" THEN x + y ELSE (IF x >= y THEN x ELSE y)

\* The entries at place r of each block of the table, from block st on,
\* folded with op; a block holds the entries of one state of the first key.
RECURSIVE FoldBlocks(_, _, _, _, _)
FoldBlocks(table, blockSize, op, st, r) ==
    IF st * blockSize + r + blockSize > Len(table)
    THEN table[st * blockSize + r]
    ELSE Apply(op, table[st * blockSize + r],
               FoldBlocks(table, blockSize, op, st + 1, r))

\* Mutant of combine: the last nrFrontals keys are eliminated instead of the
\* first.
RECURSIVE combine_LastKeys(_, _, _)
combine_LastKeys(f, nrFrontals, op) ==
    IF nrFrontals = 0 THEN f
    ELSE LET n     == Len(f.cards)
             last  == f.cards[n]
             cards == SubSeq(f.cards, 1, n - 1)
         IN  combine_LastKeys(
                 [cards |-> cards,
                  table |-> [r \in 1..TableSize(cards) |->
                               FoldBlocks(SubSeq(f.table, (r - 1) * last + 1, r * last),
                                          1, op, 0, 1)]],
                 nrFrontals - 1, op)

\* combine(nrFrontals, op): eliminates the first nrFrontals keys one after
\* the other, folding the potentials of the key's states with op; the result
\* is over the remaining keys.
RECURSIVE combine(_, _, _)
combine(f, nrFrontals, op) ==
    IF nrFrontals = 0 THEN f
    ELSE LET cards == Tail(f.cards)
             size  == TableSize(cards)
         IN  combine([cards |-> cards,
                      table |-> [r \in 1..size |-> FoldBlocks(f.table, size, op, 0, r)]],
                     nrFrontals - 1, op)

\* sum(nrFrontals) and max(nrFrontals)
sum(f, nrFrontals) == combine(f, nrFrontals, "sum")

max(f, nrFrontals) == combine(f, nrFrontals, "max")

\* The shapes of the tables: 1..MaxTableKeys keys of 2..MaxCard states each,
\* MaxTableSize entries at most.
TableShapes ==
    {cards \in UNION {[1..n -> 2..MaxCard] : n \in 1..MaxTableKeys} :
        TableSize(cards) <= MaxTableSize}

InitTable ==
    /\ NoIsam
    /\ NoHybridTree
    /\ NoEquality
    /\ \E cards \in TableShapes :
          \E table \in [1..TableSize(cards) -> 1..MaxPotential] :
              f1 = [cards |-> cards, table |-> table]
    /\ actual = NoResult

\* actual = f1.sum(1)
Sum ==
    /\ actual.op = "none"
    /\ LET r == sum(f1, 1)
       IN  actual' = [op |-> "sum", cards |-> r.cards, table |-> r.table]
    /\ UNCHANGED <<f1, isamVars, hybridVars, equalityVars>>

\* actual2 = f1.max(1)
MaxOut ==
    /\ actual.op = "none"
    /\ LET r == max(f1, 1)
       IN  actual' = [op |-> "max", cards |-> r.cards, table |-> r.table]
    /\ UNCHANGED <<f1, isamVars, hybridVars, equalityVars>>

NextTable == Sum \/ MaxOut

SpecTable == InitTable /\ [][NextTable]_vars

\* The potentials f1 gives to the assignment rest of the remaining keys, one
\* for each state of the first key, folded with op from state st on.
RECURSIVE OverFirstKey(_, _, _)
OverFirstKey(op, st, rest) ==
    IF st = Head(f1.cards) - 1 THEN ValueAt(f1, <<st>> \o rest)
    ELSE Apply(op, ValueAt(f1, <<st>> \o rest), OverFirstKey(op, st + 1, rest))

\* C16: f.sum(1) and f.max(1) are factors over the remaining keys only, and
\* their value at every assignment of the remaining keys is the sum,
\* respectively the maximum, of f over all states of the first key.
C16_SumMaxOverFirstKey ==
    actual.op # "none" =>
        /\ actual.cards = Tail(f1.cards)
        /\ Len(actual.table) = TableSize(Tail(f1.cards))
        /\ \A rest \in Assignments(Tail(f1.cards)) :
              ValueAt(actual, rest) = OverFirstKey(actual.op, 0, rest)

\* The table 1 2 3 4 5 6 over (v0:3, v1:2) was summed to 9 12 over v1.
C16_Witness ==
    /\ f1 = [cards |-> <<3, 2>>, table |-> <<1, 2, 3, 4, 5, 6>>]
    /\ actual = [op |-> "sum", cards |-> <<2>>, table |-> <<9, 12>>]

====
